---- MODULE Spec2Model ----
(***************************************************************************)
(* Model of the map_to_range crate (src/src/lib.rs): the trait MapRange     *)
(* with map_range (upcast to f64, map, cast back) and map_range_uncasted    *)
(* (checked arithmetic in the value's own type), for the primitive types    *)
(* u8, u16, u32, u64, i8, i16, i32, i64, f32 and f64 (usize and isize are   *)
(* u64 and i64 on 64-bit targets).                                           *)
(*                                                                           *)
(* Integers of every width are exact signed big integers; floats are IEEE   *)
(* 754 binary32 / binary64 values (sign, odd mantissa, exponent, with       *)
(* signed zero, infinities and NaN) rounded to nearest, ties to even, with  *)
(* subnormals.  Big naturals are little-endian sequences of 15-bit limbs.   *)
(***************************************************************************)
EXTENDS Integers, Sequences, FiniteSets, TLC

\* ---------------------------------------------------------------- bounds
MaxSmall == 1
MaxSmallF == 1

\* ------------------------------------------------------------- Option<T>
None == <<>>
Some(x) == <<x>>
IsSome(o) == o # <<>>
Val(o) == o[1]
\* `let x = o?; ...`: None if o is None, else the rest with x bound to the value
Bind(o, F(_)) == IF IsSome(o) THEN F(Val(o)) ELSE None
\* `let x = e; ...` (e evaluated once)
LetIn(e, F(_)) == F(e)

\* ------------------------------------------------------------ small ints
Abs(x) == IF x < 0 THEN -x ELSE x
Sgn(x) == IF x > 0 THEN 1 ELSE IF x < 0 THEN -1 ELSE 0
Min(a, b) == IF a < b THEN a ELSE b
Max(a, b) == IF a < b THEN b ELSE a
RECURSIVE BitLenSmall(_)
BitLenSmall(x) == IF x = 0 THEN 0 ELSE 1 + BitLenSmall(x \div 2)

\* ---------------------------------------------------------- big naturals
LimbBits == 15
Base == 2 ^ LimbBits
RECURSIVE BNorm(_)
BNorm(a) == IF a = <<>> THEN a
            ELSE IF a[Len(a)] = 0 THEN BNorm(SubSeq(a, 1, Len(a) - 1)) ELSE a
RECURSIVE BFromNat(_)
BFromNat(x) == IF x = 0 THEN <<>> ELSE <<x % Base>> \o BFromNat(x \div Base)
Head0(a) == IF a = <<>> THEN 0 ELSE Head(a)
Tail0(a) == IF a = <<>> THEN <<>> ELSE Tail(a)
BLimb(a, i) == IF i <= Len(a) THEN a[i] ELSE 0
RECURSIVE BAddC(_, _, _)
BAddC(a, b, c) ==
    IF a = <<>> /\ b = <<>> THEN (IF c = 0 THEN <<>> ELSE <<c>>)
    ELSE LET s == Head0(a) + Head0(b) + c
         IN <<s % Base>> \o BAddC(Tail0(a), Tail0(b), s \div Base)
BAdd(a, b) == BAddC(a, b, 0)
RECURSIVE BSubC(_, _, _)
BSubC(a, b, br) ==
    IF a = <<>> THEN <<>>
    ELSE LET s == Head(a) - Head0(b) - br
         IN IF s < 0 THEN <<s + Base>> \o BSubC(Tail(a), Tail0(b), 1)
            ELSE <<s>> \o BSubC(Tail(a), Tail0(b), 0)
\* a - b for a >= b
BSub(a, b) == BNorm(BSubC(a, b, 0))
RECURSIVE BCmpTop(_, _, _)
BCmpTop(a, b, i) ==
    IF i = 0 THEN 0
    ELSE IF a[i] # b[i] THEN Sgn(a[i] - b[i]) ELSE BCmpTop(a, b, i - 1)
BCmp(a, b) == IF Len(a) # Len(b) THEN Sgn(Len(a) - Len(b)) ELSE BCmpTop(a, b, Len(a))
RECURSIVE BMulSC(_, _, _)
BMulSC(a, k, c) ==
    IF a = <<>> THEN BFromNat(c)
    ELSE LET s == Head(a) * k + c IN <<s % Base>> \o BMulSC(Tail(a), k, s \div Base)
\* a * k for 0 <= k < Base
BMulSmall(a, k) == IF k = 0 THEN <<>> ELSE BMulSC(a, k, 0)
BShlLimbs(a, n) == IF a = <<>> THEN a ELSE [i \in 1..n |-> 0] \o a
RECURSIVE BMul(_, _)
BMul(a, b) ==
    IF b = <<>> THEN <<>>
    ELSE BAdd(BMulSmall(a, Head(b)), BShlLimbs(BMul(a, Tail(b)), 1))
\* a * 2^k
BShl(a, k) == BShlLimbs(BMulSmall(a, 2 ^ (k % LimbBits)), k \div LimbBits)
RECURSIVE BDivSTop(_, _, _, _)
BDivSTop(a, k, i, r) ==
    IF i = 0 THEN <<>>
    ELSE LET x == r * Base + a[i]
         IN BDivSTop(a, k, i - 1, x % k) \o <<x \div k>>
\* floor(a / k) for 0 < k < Base
BDivSmall(a, k) == BNorm(BDivSTop(a, k, Len(a), 0))
\* floor(a / 2^k)
BShr(a, k) ==
    IF k \div LimbBits >= Len(a) THEN <<>>
    ELSE BDivSmall(SubSeq(a, k \div LimbBits + 1, Len(a)), 2 ^ (k % LimbBits))
\* a mod 2^k # 0
BLowNonZero(a, k) ==
    \/ \E i \in 1..Min(k \div LimbBits, Len(a)) : a[i] # 0
    \/ BLimb(a, k \div LimbBits + 1) % (2 ^ (k % LimbBits)) # 0
BBitLen(a) == IF a = <<>> THEN 0 ELSE LimbBits * (Len(a) - 1) + BitLenSmall(a[Len(a)])
BBit(a, k) == (BLimb(a, k \div LimbBits + 1) \div (2 ^ (k % LimbBits))) % 2
BPow2(k) == BShl(<<1>>, k)
BOne == <<1>>
RECURSIVE BTrailingZeros(_)
BTrailingZeros(a) ==
    IF a = <<>> THEN 0
    ELSE IF Head(a) = 0 THEN LimbBits + BTrailingZeros(Tail(a))
    ELSE LET RECURSIVE tz(_)
             tz(x) == IF x % 2 = 1 THEN 0 ELSE 1 + tz(x \div 2)
         IN tz(Head(a))
\* long division (schoolbook, base 2^15, normalised divisor)
RECURSIVE BQCorrect(_, _, _)
BQCorrect(r, b, q) ==
    IF q > 0 /\ BCmp(BMulSmall(b, q), r) > 0 THEN BQCorrect(r, b, q - 1) ELSE q
RECURSIVE BDivLoop(_, _, _, _)
BDivLoop(a, b, i, r) ==
    IF i = 0 THEN [q |-> <<>>, r |-> r]
    ELSE LetIn(BNorm(<<a[i]>> \o r), LAMBDA r1 :
         LetIn(BQCorrect(r1, b,
                         IF Len(r1) < Len(b) THEN 0
                         ELSE Min(Base - 1, (BLimb(r1, Len(b) + 1) * Base + BLimb(r1, Len(b)))
                                            \div b[Len(b)])), LAMBDA qd :
         LetIn(BDivLoop(a, b, i - 1, BSub(r1, BMulSmall(b, qd))), LAMBDA rest :
         [q |-> rest.q \o <<qd>>, r |-> rest.r])))
\* [q |-> floor(a / b), r |-> a mod b] for b # 0
BDivMod(a, b) ==
    IF Len(b) = 1
    THEN LetIn(BDivSmall(a, b[1]), LAMBDA q : [q |-> q, r |-> BSub(a, BMulSmall(q, b[1]))])
    ELSE LetIn(LimbBits - BitLenSmall(b[Len(b)]), LAMBDA s :
         LetIn(BShl(a, s), LAMBDA an :
         LetIn(BDivLoop(an, BShl(b, s), Len(an), <<>>), LAMBDA res :
         [q |-> BNorm(res.q), r |-> BShr(res.r, s)])))

\* -------------------------------------------------------- big integers
SMk(neg, mag) == [neg |-> neg /\ mag # <<>>, mag |-> mag]
SFrom(x) == SMk(x < 0, BFromNat(Abs(x)))
SNeg(a) == SMk(~a.neg, a.mag)
SAdd(a, b) ==
    IF a.neg = b.neg THEN SMk(a.neg, BAdd(a.mag, b.mag))
    ELSE IF BCmp(a.mag, b.mag) >= 0 THEN SMk(a.neg, BSub(a.mag, b.mag))
    ELSE SMk(b.neg, BSub(b.mag, a.mag))
SSub(a, b) == SAdd(a, SNeg(b))
SMul(a, b) == SMk(a.neg # b.neg, BMul(a.mag, b.mag))
\* Rust integer `/`: truncation toward zero (b # 0)
STruncDiv(a, b) == SMk(a.neg # b.neg, BDivMod(a.mag, b.mag).q)
SCmp(a, b) ==
    IF a.neg # b.neg THEN (IF a.neg THEN -1 ELSE 1)
    ELSE IF a.neg THEN BCmp(b.mag, a.mag) ELSE BCmp(a.mag, b.mag)
SLt(a, b) == SCmp(a, b) < 0
SLe(a, b) == SCmp(a, b) <= 0
SZero == SFrom(0)
SPow2(k) == SMk(FALSE, BPow2(k))

\* ------------------------------------------- IEEE 754 binary32 / binary64
\* prec: significand bits; emin: exponent of the least subnormal;
\* emax: exponent of the last significand bit of MAX = (2^prec - 1) * 2^emax
F64 == [prec |-> 53, emin |-> -1074, emax |-> 971]
F32 == [prec |-> 24, emin |-> -149, emax |-> 104]
\* finite values are (-1)^neg * m * 2^e with m odd (m = <<>>, e = 0 for zero)
FZeroS(neg) == [t |-> "num", neg |-> neg, m |-> <<>>, e |-> 0]
FInf(neg) == [t |-> "inf", neg |-> neg, m |-> <<>>, e |-> 0]
NaN == [t |-> "nan", neg |-> FALSE, m |-> <<>>, e |-> 0]
IsNaN(a) == a.t = "nan"
IsInf(a) == a.t = "inf"
IsZero(a) == a.t = "num" /\ a.m = <<>>
\* round (-1)^neg * (N + d) * 2^E, d in (0,1) if sticky else 0, to the format
FRound(fmt, neg, N, E, sticky) ==
    LetIn(Max(BBitLen(N) - fmt.prec, fmt.emin - E), LAMBDA sh :
    LetIn(IF sh <= 0 THEN N ELSE BShr(N, sh), LAMBDA q :
    LetIn(IF /\ sh > 0
             /\ BBit(N, sh - 1) = 1
             /\ (BLowNonZero(N, sh - 1) \/ sticky \/ BBit(q, 0) = 1)
          THEN BAdd(q, BOne) ELSE q, LAMBDA q2 :
    LetIn(IF sh <= 0 THEN E ELSE E + sh, LAMBDA E2 :
    IF q2 = <<>> THEN FZeroS(neg)
    ELSE IF E2 + BBitLen(q2) - fmt.prec > fmt.emax THEN FInf(neg)
    ELSE LetIn(BTrailingZeros(q2), LAMBDA tz :
         [t |-> "num", neg |-> neg, m |-> BShr(q2, tz), e |-> E2 + tz])))))
FFromSInt(fmt, x) == FRound(fmt, x.neg, x.mag, 0, FALSE)
FMaxOf(fmt) == [t |-> "num", neg |-> FALSE, m |-> BSub(BPow2(fmt.prec), BOne), e |-> fmt.emax]
FNeg(a) == IF IsNaN(a) THEN a ELSE [a EXCEPT !.neg = ~a.neg]
FTop(a) == a.e + BBitLen(a.m)
FAdd(fmt, a, b) ==
    IF IsNaN(a) \/ IsNaN(b) THEN NaN
    ELSE IF IsInf(a) /\ IsInf(b) THEN (IF a.neg = b.neg THEN a ELSE NaN)
    ELSE IF IsInf(a) THEN a
    ELSE IF IsInf(b) THEN b
    ELSE IF IsZero(a) /\ IsZero(b) THEN FZeroS(a.neg /\ b.neg)
    ELSE IF IsZero(a) THEN b
    ELSE IF IsZero(b) THEN a
    ELSE IF Abs(FTop(a) - FTop(b)) > fmt.prec + 3
    THEN LetIn(IF FTop(a) > FTop(b) THEN a ELSE b, LAMBDA x :
         LetIn(IF FTop(a) > FTop(b) THEN b ELSE a, LAMBDA y :
         LetIn(BShl(x.m, fmt.prec + 3), LAMBDA Nx :
         FRound(fmt, x.neg, IF x.neg = y.neg THEN Nx ELSE BSub(Nx, BOne),
                x.e - (fmt.prec + 3), TRUE))))
    ELSE LetIn(Min(a.e, b.e), LAMBDA lo :
         LetIn(BShl(a.m, a.e - lo), LAMBDA Na :
         LetIn(BShl(b.m, b.e - lo), LAMBDA Nb :
         LetIn(BCmp(Na, Nb), LAMBDA c :
         IF a.neg = b.neg THEN FRound(fmt, a.neg, BAdd(Na, Nb), lo, FALSE)
         ELSE IF c = 0 THEN FZeroS(FALSE)
         ELSE IF c > 0 THEN FRound(fmt, a.neg, BSub(Na, Nb), lo, FALSE)
         ELSE FRound(fmt, b.neg, BSub(Nb, Na), lo, FALSE)))))
FSub(fmt, a, b) == FAdd(fmt, a, FNeg(b))
FMul(fmt, a, b) ==
    IF IsNaN(a) \/ IsNaN(b) THEN NaN
    ELSE IF (IsInf(a) /\ IsZero(b)) \/ (IsZero(a) /\ IsInf(b)) THEN NaN
    ELSE IF IsInf(a) \/ IsInf(b) THEN FInf(a.neg # b.neg)
    ELSE IF IsZero(a) \/ IsZero(b) THEN FZeroS(a.neg # b.neg)
    ELSE FRound(fmt, a.neg # b.neg, BMul(a.m, b.m), a.e + b.e, FALSE)
FDiv(fmt, a, b) ==
    IF IsNaN(a) \/ IsNaN(b) THEN NaN
    ELSE IF IsInf(a) /\ IsInf(b) THEN NaN
    ELSE IF IsInf(a) THEN FInf(a.neg # b.neg)
    ELSE IF IsInf(b) THEN FZeroS(a.neg # b.neg)
    ELSE IF IsZero(a) /\ IsZero(b) THEN NaN
    ELSE IF IsZero(b) THEN FInf(a.neg # b.neg)
    ELSE IF IsZero(a) THEN FZeroS(a.neg # b.neg)
    ELSE LetIn(Max(0, fmt.prec + 3 + BBitLen(b.m) - BBitLen(a.m)), LAMBDA k :
         LetIn(BDivMod(BShl(a.m, k), b.m), LAMBDA dm :
         FRound(fmt, a.neg # b.neg, dm.q, a.e - b.e - k, dm.r # <<>>)))
\* three-way comparison of two non-NaN values (-0 = +0)
FSignum(a) == IF IsZero(a) THEN 0 ELSE IF a.neg THEN -1 ELSE 1
FCmp(a, b) ==
    LET rank(x) == IF IsInf(x) THEN 2 * FSignum(x) ELSE 0
        sa == FSignum(a)
        sb == FSignum(b)
    IN IF rank(a) # rank(b) THEN Sgn(rank(a) - rank(b))
       ELSE IF IsInf(a) THEN 0
       ELSE IF sa # sb THEN Sgn(sa - sb)
       ELSE IF sa = 0 THEN 0
       ELSE IF FTop(a) # FTop(b) THEN sa * Sgn(FTop(a) - FTop(b))
       ELSE LET lo == Min(a.e, b.e)
            IN sa * BCmp(BShl(a.m, a.e - lo), BShl(b.m, b.e - lo))
FLt(a, b) == ~IsNaN(a) /\ ~IsNaN(b) /\ FCmp(a, b) < 0
FLe(a, b) == ~IsNaN(a) /\ ~IsNaN(b) /\ FCmp(a, b) <= 0
FEq(a, b) == ~IsNaN(a) /\ ~IsNaN(b) /\ FCmp(a, b) = 0

\* ------------------------------------------------------ representations
IntReps == {"u8", "u16", "u32", "u64", "i8", "i16", "i32", "i64"}
FloatReps == {"f32", "f64"}
Reps == IntReps \cup FloatReps
IsFloat(rep) == rep \in FloatReps
RSigned(rep) == rep \in {"i8", "i16", "i32", "i64"}
RWidth(rep) ==
    CASE rep \in {"u8", "i8"} -> 8
      [] rep \in {"u16", "i16"} -> 16
      [] rep \in {"u32", "i32"} -> 32
      [] rep \in {"u64", "i64"} -> 64
\* R::MIN and R::MAX
RMin(rep) == IF RSigned(rep) THEN SNeg(SPow2(RWidth(rep) - 1)) ELSE SZero
RMax(rep) == IF RSigned(rep) THEN SSub(SPow2(RWidth(rep) - 1), SFrom(1))
             ELSE SSub(SPow2(RWidth(rep)), SFrom(1))
InRange(rep, x) == SLe(RMin(rep), x) /\ SLe(x, RMax(rep))
Fmt(rep) == IF rep = "f32" THEN F32 ELSE F64

\* ---------------------------- CheckedNumberArithmetics for f32 and f64
checked_add_mr_float(fmt, self, other) ==
    IF FLe(FSub(fmt, FMaxOf(fmt), self), other) \/ FLe(FSub(fmt, FMaxOf(fmt), other), self)
    THEN None ELSE Some(FAdd(fmt, self, other))
checked_sub_mr_float(fmt, self, other) == Some(FSub(fmt, self, other))
checked_mul_mr_float(fmt, self, other) ==
    IF (~FEq(self, FZeroS(FALSE)) \/ ~FEq(other, FZeroS(FALSE)))
       /\ (FLe(FDiv(fmt, FMaxOf(fmt), self), other) /\ FLe(FDiv(fmt, FMaxOf(fmt), other), self))
    THEN None ELSE Some(FMul(fmt, self, other))
checked_div_mr_float_nozero(fmt, self, other) == Some(FDiv(fmt, self, other))
checked_div_mr_float(fmt, self, other) ==
    IF FEq(other, FZeroS(FALSE)) THEN None ELSE Some(FDiv(fmt, self, other))

\* ------------------- CheckedNumberArithmetics for the integers (checked_*)
checked_add_mr_int(rep, self, other) ==
    LetIn(SAdd(self, other), LAMBDA r : IF InRange(rep, r) THEN Some(r) ELSE None)
\* two's complement wraparound of x to the width of rep
Wrap(rep, x) ==
    LET m == SPow2(RWidth(rep))
        r0 == SMk(FALSE, BDivMod(x.mag, m.mag).r)
        r == IF x.neg /\ r0 # SZero THEN SSub(m, r0) ELSE r0
    IN IF RSigned(rep) /\ SLe(SPow2(RWidth(rep) - 1), r) THEN SSub(r, m) ELSE r
checked_sub_mr_int_wrapping(rep, self, other) == Some(Wrap(rep, SSub(self, other)))
checked_sub_mr_int(rep, self, other) ==
    LetIn(SSub(self, other), LAMBDA r : IF InRange(rep, r) THEN Some(r) ELSE None)
checked_mul_mr_int_wrapping(rep, self, other) == Some(Wrap(rep, SMul(self, other)))
checked_mul_mr_int(rep, self, other) ==
    LetIn(SMul(self, other), LAMBDA r : IF InRange(rep, r) THEN Some(r) ELSE None)
checked_div_mr_int_floor(rep, self, other) ==
    IF other = SZero THEN None
    ELSE LET d == BDivMod(self.mag, other.mag)
             q == IF self.neg # other.neg /\ d.r # <<>>
                  THEN SSub(STruncDiv(self, other), SFrom(1)) ELSE STruncDiv(self, other)
         IN IF InRange(rep, q) THEN Some(q) ELSE None
checked_div_mr_int(rep, self, other) ==
    IF other = SZero THEN None
    ELSE LetIn(STruncDiv(self, other), LAMBDA r : IF InRange(rep, r) THEN Some(r) ELSE None)

\* --------------------------------------- MapRange::map_range_uncasted
map_range_uncasted_float_and(fmt, self, from0, from1, to0, to1) ==
    IF FLt(self, from0) /\ FLt(from1, self) THEN None
    ELSE Bind(checked_sub_mr_float(fmt, self, from0), LAMBDA diff_self_from :
         Bind(checked_sub_mr_float(fmt, to1, to0), LAMBDA diff_to :
         Bind(checked_sub_mr_float(fmt, from1, from0), LAMBDA diff_from :
         Bind(checked_mul_mr_float(fmt, diff_self_from, diff_to), LAMBDA product :
         Bind(checked_div_mr_float(fmt, product, diff_from), LAMBDA quotient :
         checked_add_mr_float(fmt, to0, quotient))))))
map_range_uncasted_float(fmt, self, from0, from1, to0, to1) ==
    IF FLt(self, from0) \/ FLt(from1, self) THEN None
    ELSE Bind(checked_sub_mr_float(fmt, self, from0), LAMBDA diff_self_from :
         Bind(checked_sub_mr_float(fmt, to1, to0), LAMBDA diff_to :
         Bind(checked_sub_mr_float(fmt, from1, from0), LAMBDA diff_from :
         Bind(checked_mul_mr_float(fmt, diff_self_from, diff_to), LAMBDA product :
         Bind(checked_div_mr_float(fmt, product, diff_from), LAMBDA quotient :
         checked_add_mr_float(fmt, to0, quotient))))))
map_range_uncasted_int_and(rep, self, from0, from1, to0, to1) ==
    IF SLt(self, from0) /\ SLt(from1, self) THEN None
    ELSE Bind(checked_sub_mr_int(rep, self, from0), LAMBDA diff_self_from :
         Bind(checked_sub_mr_int(rep, to1, to0), LAMBDA diff_to :
         Bind(checked_sub_mr_int(rep, from1, from0), LAMBDA diff_from :
         Bind(checked_mul_mr_int(rep, diff_self_from, diff_to), LAMBDA product :
         Bind(checked_div_mr_int(rep, product, diff_from), LAMBDA quotient :
         checked_add_mr_int(rep, to0, quotient))))))
map_range_uncasted_int_fromadd(rep, self, from0, from1, to0, to1) ==
    IF SLt(self, from0) \/ SLt(from1, self) THEN None
    ELSE Bind(checked_sub_mr_int(rep, self, from0), LAMBDA diff_self_from :
         Bind(checked_sub_mr_int(rep, to1, to0), LAMBDA diff_to :
         Bind(checked_sub_mr_int(rep, from1, from0), LAMBDA diff_from :
         Bind(checked_mul_mr_int(rep, diff_self_from, diff_to), LAMBDA product :
         Bind(checked_div_mr_int(rep, product, diff_from), LAMBDA quotient :
         checked_add_mr_int(rep, from0, quotient))))))
map_range_uncasted_int(rep, self, from0, from1, to0, to1) ==
    IF SLt(self, from0) \/ SLt(from1, self) THEN None
    ELSE Bind(checked_sub_mr_int(rep, self, from0), LAMBDA diff_self_from :
         Bind(checked_sub_mr_int(rep, to1, to0), LAMBDA diff_to :
         Bind(checked_sub_mr_int(rep, from1, from0), LAMBDA diff_from :
         Bind(checked_mul_mr_int(rep, diff_self_from, diff_to), LAMBDA product :
         Bind(checked_div_mr_int(rep, product, diff_from), LAMBDA quotient :
         checked_add_mr_int(rep, to0, quotient))))))
\* --------------------------------------------- CheckedNumberCastsToFloat
\* `x as f64`
checked_f64_cast(rep, x) ==
    IF ~IsFloat(rep) THEN Some(FFromSInt(F64, x))
    ELSE IF x.t = "num" /\ ~IsZero(x) THEN Some(FRound(F64, x.neg, x.m, x.e, FALSE))
    ELSE Some(x)
AsInt_floor(rep, x) ==
    LetIn(IF x.e >= 0 THEN BShl(x.m, x.e) ELSE BShr(x.m, -x.e), LAMBDA mag :
    LetIn(x.neg /\ x.e < 0 /\ BLowNonZero(x.m, -x.e), LAMBDA up :
    LetIn(IF IsNaN(x) THEN SZero
          ELSE IF IsInf(x) \/ FTop(x) > 2 * RWidth(rep)
               THEN (IF x.neg THEN RMin(rep) ELSE RMax(rep))
          ELSE SMk(x.neg, IF up THEN BAdd(mag, BOne) ELSE mag), LAMBDA v :
    IF SLt(v, RMin(rep)) THEN RMin(rep)
    ELSE IF SLt(RMax(rep), v) THEN RMax(rep) ELSE v)))
\* `other as iN / uN`: NaN -> 0, truncation toward zero, saturation at MIN/MAX
AsInt(rep, x) ==
    LetIn(IF x.e >= 0 THEN BShl(x.m, x.e) ELSE BShr(x.m, -x.e), LAMBDA mag :
    LetIn(IF IsNaN(x) THEN SZero
          ELSE IF IsInf(x) \/ FTop(x) > 2 * RWidth(rep)
               THEN (IF x.neg THEN RMin(rep) ELSE RMax(rep))
          ELSE SMk(x.neg, mag), LAMBDA v :
    IF SLt(v, RMin(rep)) THEN RMin(rep)
    ELSE IF SLt(RMax(rep), v) THEN RMax(rep) ELSE v))
\* `other as f32`
AsF32(x) == IF x.t = "num" /\ ~IsZero(x) THEN FRound(F32, x.neg, x.m, x.e, FALSE) ELSE x
checked_cast_back_strict(rep, other) ==
    IF rep = "f64" THEN Some(other)
    ELSE IF rep = "f32"
    THEN IF FLt(FMaxOf(F32), other) \/ FLt(other, FNeg(FMaxOf(F32)))
         THEN None ELSE Some(AsF32(other))
    ELSE IF FLe(FFromSInt(F64, RMax(rep)), other) \/ FLe(other, FFromSInt(F64, RMin(rep)))
    THEN None ELSE Some(AsInt(rep, other))
checked_cast_back(rep, other) ==
    IF rep = "f64" THEN Some(other)
    ELSE IF rep = "f32"
    THEN IF FLt(FMaxOf(F32), other) \/ FLt(other, FNeg(FMaxOf(F32)))
         THEN None ELSE Some(AsF32(other))
    ELSE IF FLt(FFromSInt(F64, RMax(rep)), other) \/ FLt(other, FFromSInt(F64, RMin(rep)))
    THEN None ELSE Some(AsInt(rep, other))

map_range_uncasted(rep, self, from0, from1, to0, to1) ==
    IF IsFloat(rep) THEN map_range_uncasted_float(Fmt(rep), self, from0, from1, to0, to1)
    ELSE map_range_uncasted_int(rep, self, from0, from1, to0, to1)

\* ------------------------------------------------ MapRange::map_range
map_range_direct(rep, self, from0, from1, to0, to1) ==
    map_range_uncasted(rep, self, from0, from1, to0, to1)
map_range(rep, self, from0, from1, to0, to1) ==
    Bind(checked_f64_cast(rep, self), LAMBDA value :
    Bind(checked_f64_cast(rep, from0), LAMBDA fr0 :
    Bind(checked_f64_cast(rep, from1), LAMBDA fr1 :
    Bind(checked_f64_cast(rep, to0), LAMBDA tr0 :
    Bind(checked_f64_cast(rep, to1), LAMBDA tr1 :
    Bind(map_range_uncasted_float(F64, value, fr0, fr1, tr0, tr1), LAMBDA result :
    checked_cast_back(rep, result)))))))

\* ----------------------------------------------------------- state machine
Operands(rep) ==
    IF IsFloat(rep)
    THEN {FFromSInt(Fmt(rep), SFrom(k)) : k \in -MaxSmallF..MaxSmallF}
         \cup {FZeroS(TRUE), FMaxOf(Fmt(rep)), FInf(FALSE), NaN}
    ELSE {SFrom(k) : k \in (IF RSigned(rep) THEN -MaxSmall ELSE 0)..MaxSmall}
         \cup {RMin(rep), RMax(rep)}
         \cup (IF rep = "u64" THEN {SPow2(53), SAdd(SPow2(53), SFrom(1))} ELSE {})

VARIABLES rep, v, f0, f1, t0, t1, res, resU, doneMR, doneU
vars == <<rep, v, f0, f1, t0, t1, res, resU, doneMR, doneU>>

Init ==
    /\ rep \in Reps
    /\ v \in Operands(rep)
    /\ f0 \in Operands(rep)
    /\ f1 \in Operands(rep)
    /\ t0 \in Operands(rep)
    /\ t1 \in Operands(rep)
    /\ res = None
    /\ resU = None
    /\ doneMR = FALSE
    /\ doneU = FALSE

MapRange ==
    /\ ~doneMR
    /\ res' = map_range(rep, v, f0, f1, t0, t1)
    /\ doneMR' = TRUE
    /\ UNCHANGED <<rep, v, f0, f1, t0, t1, resU, doneU>>

MapRangeUncasted ==
    /\ ~doneU
    /\ resU' = map_range_uncasted(rep, v, f0, f1, t0, t1)
    /\ doneU' = TRUE
    /\ UNCHANGED <<rep, v, f0, f1, t0, t1, res, doneMR>>

Next == MapRange \/ MapRangeUncasted

Spec == Init /\ [][Next]_vars

\* ------------------------------------------------------ claim vocabulary
IsIntRep == ~IsFloat(rep)
\* the 8- and 16-bit integer representations
IsSmallInt == rep \in {"u8", "i8", "u16", "i16"}
\* representations whose values all convert exactly to f64
ExactInF64 == rep \notin {"u64", "i64"}
\* Rust `<` and `<=` on values of rep
Lt(a, b) == IF IsFloat(rep) THEN FLt(a, b) ELSE SLt(a, b)
Le(a, b) == IF IsFloat(rep) THEN FLe(a, b) ELSE SLe(a, b)
\* value inside from_range (Rust `from.0 <= value <= from.1`)
InFrom == Le(f0, v) /\ Le(v, f1)
OutsideFrom == Lt(v, f0) \/ Lt(f1, v)
FromEqual == IF IsFloat(rep) THEN FEq(f0, f1) ELSE f0 = f1
FromLess == Lt(f0, f1)
FromInverted == Lt(f1, f0)
ToOrdered == Le(t0, t1)
\* Rust `o == Some(x)`
OptIs(o, x) == IsSome(o) /\ (IF IsFloat(rep) THEN FEq(Val(o), x) ELSE Val(o) = x)
\* Rust `to.0 <= r && r <= to.1`
InTo(x) == Le(t0, x) /\ Le(x, t1)
\* exact mathematical steps of the interpolation on integers
MathD1 == SSub(v, f0)
MathD2 == SSub(t1, t0)
MathD3 == SSub(f1, f0)
MathP == SMul(MathD1, MathD2)
MathQ == IF MathD3 = SZero THEN SZero ELSE STruncDiv(MathP, MathD3)
\* to.0 * (from.1 - from.0) + (value - from.0) * (to.1 - to.0)
MathNum == SAdd(SMul(t0, MathD3), MathP)

\* C1 (original): for every representation, a value below from.0 or above
\* from.1 makes map_range and map_range_uncasted return None.
C1_Original == (doneMR /\ doneU /\ OutsideFrom) => res = None /\ resU = None
\* C1 (amended): a value outside from_range makes map_range_uncasted return
\* None for every representation, and map_range return None for every
\* representation except the 64-bit integers.
C1_Amended ==
    (doneMR /\ doneU /\ OutsideFrom) => resU = None /\ (ExactInF64 => res = None)
C1_Witness == rep = "f32" /\ doneMR /\ doneU /\ Lt(v, f0) /\ FromLess

\* C2 (original): for in-range values of a non-degenerate source interval
\* where no intermediate step overflows, map_range returns Some(r) with r the
\* interpolation formula (computed in f64 for the upcast path), exactly for
\* integers when the division is exact.
C2_Original ==
    (doneMR /\ InFrom /\ FromLess
     /\ (IsFloat(rep) =>
           LET c(x) == Val(checked_f64_cast(rep, x))
               d1 == FSub(F64, c(v), c(f0))
               d2 == FSub(F64, c(t1), c(t0))
               d3 == FSub(F64, c(f1), c(f0))
               p == FMul(F64, d1, d2)
               q == FDiv(F64, p, d3)
           IN \A x \in {d1, d2, d3, p, q, FAdd(F64, c(t0), q)} : x.t = "num"))
    => /\ IsSome(res)
       /\ IF IsFloat(rep)
          THEN LET c(x) == Val(checked_f64_cast(rep, x))
                   r == FAdd(F64, c(t0), FDiv(F64, FMul(F64, FSub(F64, c(v), c(f0)),
                                                     FSub(F64, c(t1), c(t0))),
                                                FSub(F64, c(f1), c(f0))))
               IN FEq(Val(res), IF rep = "f32" THEN AsF32(r) ELSE r)
          ELSE (SMul(STruncDiv(MathP, MathD3), MathD3) = MathP
                => res = Some(SAdd(t0, STruncDiv(MathP, MathD3))))
\* C2 (amended): for the 8- and 16-bit integer representations, every in-range
\* value of a non-degenerate source interval is mapped by map_range to
\* Some(trunc(to.0 + (value-from.0)*(to.1-to.0)/(from.1-from.0))).
C2_Amended ==
    (IsSmallInt /\ doneMR /\ InFrom /\ FromLess)
    => res = Some(STruncDiv(MathNum, MathD3))
C2_Witness ==
    /\ rep = "i8" /\ doneMR /\ InFrom /\ FromLess
    /\ MathNum.neg
    /\ SMul(STruncDiv(MathNum, MathD3), MathD3) # MathNum

\* C3 (original): a zero-width source interval (from.0 == from.1) makes
\* map_range and map_range_uncasted return None for every value.
C3_Original == (doneMR /\ doneU /\ FromEqual) => res = None /\ resU = None
\* C3 (amended): a zero-width source interval with a finite bound (always the
\* case for integers) makes both functions return None for every value.
C3_Amended ==
    (doneMR /\ doneU /\ FromEqual /\ (IsFloat(rep) => ~IsInf(f0)))
    => res = None /\ resU = None
C3_Witness ==
    rep = "f64" /\ doneMR /\ doneU /\ FromEqual /\ ~IsInf(f0) /\ FEq(v, f0)

\* C4 (original): map_range(value, (a,b), (a,b)) == Some(value) whenever
\* a <= value <= b, including a == b.
C4_Original == (doneMR /\ t0 = f0 /\ t1 = f1 /\ InFrom) => OptIs(res, v)
\* C4 (amended): for the 8- and 16-bit integer representations and a < b,
\* map_range(value, (a,b), (a,b)) == Some(value) whenever a <= value <= b.
C4_Amended ==
    (IsSmallInt /\ doneMR /\ t0 = f0 /\ t1 = f1 /\ FromLess /\ InFrom) => res = Some(v)
C4_Witness ==
    /\ rep = "i16" /\ doneMR /\ t0 = f0 /\ t1 = f1 /\ f0 = RMin(rep) /\ f1 = RMax(rep)
    /\ v = SFrom(1)

\* C5 (original): for from.0 < from.1 and any target pair,
\* map_range(from.0) == Some(to.0) and map_range(from.1) == Some(to.1).
C5_Original ==
    (doneMR /\ FromLess)
    => /\ (v = f0 => OptIs(res, t0))
       /\ (v = f1 => OptIs(res, t1))
\* C5 (amended): the endpoint property holds for the 8- and 16-bit integer
\* representations.
C5_Amended ==
    (IsSmallInt /\ doneMR /\ FromLess)
    => /\ (v = f0 => res = Some(t0))
       /\ (v = f1 => res = Some(t1))
C5_Witness == rep = "u16" /\ doneMR /\ FromLess /\ v = f1 /\ t1 = RMax(rep)

\* C6 (original): for an integer representation, map_range returns None
\* whenever (value-from.0)*(to.1-to.0) exceeds R::MAX.
C6_Original == (IsIntRep /\ doneMR /\ SLt(RMax(rep), MathP)) => res = None
\* C6 (amended): for an integer representation, map_range_uncasted returns
\* None whenever (value-from.0)*(to.1-to.0) exceeds R::MAX.
C6_Amended == (IsIntRep /\ doneU /\ SLt(RMax(rep), MathP)) => resU = None
C6_Witness ==
    /\ IsIntRep /\ doneU /\ InFrom /\ SLt(RMax(rep), MathP)
    /\ InRange(rep, MathD1) /\ InRange(rep, MathD2) /\ InRange(rep, MathD3)

C8_Original == (doneMR /\ doneU /\ FromInverted) => res = None /\ resU = None
\* C8 (amended): with an inverted source interval both functions return None
\* for every value that is not NaN.
C8_Amended ==
    (doneMR /\ doneU /\ FromInverted /\ (IsFloat(rep) => ~IsNaN(v)))
    => res = None /\ resU = None
C8_Witness ==
    rep = "i32" /\ doneMR /\ doneU /\ FromInverted /\ v = f0

C10_Original ==
    (IsIntRep /\ doneMR /\ doneU /\ IsSome(res) /\ IsSome(resU)) => res = resU
\* C10 (amended): for the 8- and 16-bit integer representations, whenever both
\* return Some and to.0 and to.1-to.0 are not of strictly opposite signs, the
\* results are equal.
C10_Amended ==
    (IsSmallInt /\ doneMR /\ doneU /\ IsSome(res) /\ IsSome(resU)
     /\ ~(t0 # SZero /\ MathD2 # SZero /\ t0.neg # MathD2.neg))
    => res = resU
C10_Witness ==
    /\ rep = "i8" /\ doneMR /\ doneU /\ IsSome(res) /\ IsSome(resU)
    /\ t0.neg /\ SLt(t1, t0)
    /\ SMul(MathQ, MathD3) # MathP

====
